---- MODULE Spec2Model ----
(***************************************************************************)
(* State-machine model of the delivery server (src/server.ts): the         *)
(* in-memory stores restaurants, tempMenus, orders, messages, imageRecords *)
(* and couriers, the uploads directory, the WebSocket client set, the      *)
(* HTTP handlers that read and write them, the delivery-ack listeners      *)
(* registered by POST /messages, and the 15-minute cleanup.                *)
(*                                                                         *)
(* Every handler is one action.  The variable res holds the handler that   *)
(* ran last, its request and its response; sent holds the events that      *)
(* handler put on the sockets, in sending order.                           *)
(***************************************************************************)
EXTENDS Integers, Sequences, FiniteSets, TLC

(* ------------------------------------------------------------------ *)
(* Program constants (milliseconds)                                   *)
(* ------------------------------------------------------------------ *)
MINUTE == 60 * 1000
THREE_HOURS == 3 * 60 * 60 * 1000
FIFTEEN_MINUTES == 15 * 60 * 1000
TWENTY_FOUR_HOURS == 24 * 60 * 60 * 1000

(* ------------------------------------------------------------------ *)
(* Bounds of the model and the sampled inputs                          *)
(* ------------------------------------------------------------------ *)
MaxOrders == 2      \* orders held by the registry, all buckets together
MaxBatch == 2       \* orders in one POST /orders body
MaxPosts == 2       \* messages posted in a run
MaxMenuLen == 2     \* items in one POST /menus body
MaxUploads == 2     \* files multer writes in a run

\* The instants Date.now() is sampled at: both sides of the 3h and 24h limits.
Times ==
    {0, THREE_HOURS, THREE_HOURS + MINUTE,
     TWENTY_FOUR_HOURS, TWENTY_FOUR_HOURS + MINUTE}

Undefined == "undefined"     \* a field the request body does not carry

\* a request body value: an array of elements, or a value for which
\* Array.isArray is false
ArrayOf(s) == [isArray |-> TRUE, elems |-> s]
NotArray == [isArray |-> FALSE, elems |-> <<>>]

RestaurantIds == {"r1", "r2"}
UserIds == {"u1", "u2"}
OrderIds == {"o1", "o2"}
CourierIds == {"c1", "c2"}
Conns == {"w1", "w2"}

OrderStatus ==
    {"PENDING", "ACCEPTED", "PREPARING", "READY", "PICKED_UP", "ON_WAY",
     "DELIVERED", "CANCELLED"}
Terminal == {"DELIVERED", "CANCELLED"}
ChatTypes == {"RESTAURANT_CHAT", "COURIER_CHAT"}

(* ------------------------------------------------------------------ *)
(* Array helpers                                                       *)
(* ------------------------------------------------------------------ *)
Range(s) == {s[i] : i \in 1..Len(s)}

\* Array.prototype.filter is SelectSeq.

\* the least member of a set of indices; 0 (for -1) if there is none
FirstOf(idx) == IF idx = {} THEN 0 ELSE CHOOSE i \in idx : \A j \in idx : i <= j

\* userOrders.findIndex(order => order.id === orderId), 1-based
IndexOfId(list, orderId) == FirstOf({i \in 1..Len(list) : list[i].id = orderId})

RECURSIVE Flat(_)
\* Array.prototype.flat over an array of arrays
Flat(ss) == IF ss = <<>> THEN <<>> ELSE Head(ss) \o Flat(Tail(ss))

\* sequences over S of length at most n
SeqsUpTo(S, n) == UNION {[1..k -> S] : k \in 0..n}

(* ------------------------------------------------------------------ *)
(* State                                                               *)
(* ------------------------------------------------------------------ *)
VARIABLES
    now,        \* Date.now()
    tempMenus,  \* Map restaurantId -> {items, timestamp}
    orders,     \* Map userId -> Order[], as its entries in insertion order
    messages,   \* Map orderId -> reference of a Message[] in heap
    heap,       \* the Message[] arrays alive, by reference
    listeners,  \* the 'message' listeners registered on wss, in order
    posted,     \* every message POST /messages stored, in order
    acked,      \* ids of the messages a delivery-ack listener has run for
    clients,    \* wss.clients, in insertion order
    sent,       \* events sent by the last handler: [to, type, data]
    failing,    \* the sockets whose send throws while the last handler broadcasts
    restaurants,  \* Restaurant[]
    files,        \* names of the files in the uploads directory
    uploaded,     \* every file multer has written, by name: its upload time
    imageRecords, \* ImageRecord[]
    couriers,     \* Map courierId -> Courier
    res         \* last handler: [op, req, status, body]

vars ==
    <<now, tempMenus, orders, messages, heap, listeners, posted, acked,
      clients, sent, failing, restaurants, files, uploaded, imageRecords,
      couriers, res>>

menuVars == <<tempMenus>>
orderVars == <<orders>>
messageVars == <<messages, heap, listeners, posted, acked>>
restaurantVars == <<restaurants, files, uploaded>>
sweepVars == <<imageRecords, couriers>>

Reply(op, req, status, body) ==
    [op |-> op, req |-> req, status |-> status, body |-> body]

Init ==
    /\ now = 0
    /\ tempMenus = <<>>
    /\ orders = <<>>
    /\ messages = <<>>
    /\ heap = <<>>
    /\ listeners = <<>>
    /\ posted = <<>>
    /\ acked = {}
    /\ clients = <<>>
    /\ sent = <<>>
    /\ failing = {}
    /\ restaurants = <<>>
    /\ files = {}
    /\ uploaded = <<>>
    /\ imageRecords = <<>>
    /\ couriers = <<>>
    /\ res = Reply("start", <<>>, 0, <<>>)

(* ------------------------------------------------------------------ *)
(* Clock                                                               *)
(* ------------------------------------------------------------------ *)
Advance(t) ==
    /\ t \in Times
    /\ t > now
    /\ now' = t
    /\ sent' = <<>>
    /\ failing' = {}
    /\ res' = Reply("advance", <<>>, 0, <<>>)
    /\ UNCHANGED <<menuVars, orderVars, messageVars, clients,
                 restaurantVars, sweepVars>>

(* ------------------------------------------------------------------ *)
(* Menus                                                               *)
(* ------------------------------------------------------------------ *)
MenuItem == [id : {"m1", "m2"}, price : {999}, updatedAt : {7}]
MenuBodies == {ArrayOf(s) : s \in SeqsUpTo(MenuItem, MaxMenuLen)} \cup {NotArray}

\* a function with one key set or overwritten (Map.set without ordering)
Put(m, k, v) == [x \in DOMAIN m \cup {k} |-> IF x = k THEN v ELSE m[x]]
\* Map.delete
Drop(m, k) == [x \in DOMAIN m \ {k} |-> m[x]]

\* Stamp with the map dropped: the items stored as they were sent
StampOmitted(items, t) == items

\* items.map(item => ({...item, updatedAt: Date.now()}))
Stamp(items, t) == [i \in 1..Len(items) |-> [items[i] EXCEPT !.updatedAt = t]]

\* tempMenus.set(restaurantId, {items: itemsWithTimestamp, timestamp: Date.now()})
StoreMenu(r, items, t) == Put(tempMenus, r, [items |-> Stamp(items, t), timestamp |-> t])

\* MenuExpired with >= for >
MenuExpiredEarly(data, t) == t - data.timestamp >= TWENTY_FOUR_HOURS

MenuExpired(data, t) == t - data.timestamp > TWENTY_FOUR_HOURS

\* POST /menus/:restaurantId
SetMenu(r, items) ==
    /\ r \in RestaurantIds
    /\ items \in MenuBodies
    /\ IF ~items.isArray
       THEN /\ res' = Reply("setMenu", [restaurantId |-> r, items |-> items], 400, <<>>)
            /\ UNCHANGED tempMenus
       ELSE /\ tempMenus' = StoreMenu(r, items.elems, now)
            /\ res' = Reply("setMenu", [restaurantId |-> r, items |-> items], 200, <<>>)
    /\ sent' = <<>>
    /\ failing' = {}
    /\ UNCHANGED <<now, orderVars, messageVars, clients,
                 restaurantVars, sweepVars>>

\* GET /menus/:restaurantId
GetMenu(r) ==
    /\ r \in RestaurantIds
    /\ IF r \notin DOMAIN tempMenus \/ MenuExpired(tempMenus[r], now)
       THEN /\ tempMenus' = Drop(tempMenus, r)
            /\ res' = Reply("getMenu", [restaurantId |-> r], 404, <<>>)
       ELSE /\ res' = Reply("getMenu", [restaurantId |-> r], 200, tempMenus[r].items)
            /\ UNCHANGED tempMenus
    /\ sent' = <<>>
    /\ failing' = {}
    /\ UNCHANGED <<now, orderVars, messageVars, clients,
                 restaurantVars, sweepVars>>

(* ------------------------------------------------------------------ *)
(* Restaurants and uploaded cover images                               *)
(* ------------------------------------------------------------------ *)
NoFile == 0     \* no file in the request, or no coverImage on the restaurant

\* the multipart fields of POST /restaurants; a field may be missing
RestaurantBodies ==
    [id : {"r1", Undefined}, name : {"n1", Undefined}, isActive : {"true", "false", Undefined}]

\* Object.keys(req.body).length === 0
EmptyBody(body) ==
    body.id = Undefined /\ body.name = Undefined /\ body.isActive = Undefined

\* the name multer gives the next file: image-<Date.now()>-<random><ext>,
\* here the number of the upload
NextFile == Len(uploaded) + 1

\* restaurants.findIndex(r => r.id === id), 1-based, 0 for -1
RestaurantIndex(rs, id) == FirstOf({i \in 1..Len(rs) : rs[i].id = id})

\* the uploads directory after the old cover image is replaced: the old file
\* is unlinked if it exists, unless unlinkSync throws (caught and logged)
Replaced(fs, old, fails) == IF old \in fs /\ ~fails THEN fs \ {old} ELSE fs

\* POST /restaurants with upload.single('coverImage'): file is "image",
\* "other" (a file the filter rejects) or "none"
PostRestaurant(file, body, fails) ==
    /\ file \in {"none", "image", "other"}
    /\ body \in RestaurantBodies
    /\ fails \in BOOLEAN
    /\ LET req == [file |-> file, body |-> body]
           name == IF file = "image" THEN NextFile ELSE NoFile
           saved == IF file = "image" THEN files \cup {NextFile} ELSE files
           existingIndex == RestaurantIndex(restaurants, body.id)
           existingCoverImage == IF existingIndex # 0
                                 THEN restaurants[existingIndex].coverImage ELSE NoFile
           restaurant == [id |-> body.id, name |-> body.name,
                          coverImage |-> IF file = "image" THEN name ELSE existingCoverImage,
                          isActive |-> body.isActive = "true", updatedAt |-> now]
       IN  /\ file = "image" => Len(uploaded) < MaxUploads
           /\ uploaded' = IF file = "image" THEN Append(uploaded, now) ELSE uploaded
           /\ IF file = "other"
              THEN \* the filter's error goes to the default error handler
                   /\ res' = Reply("postRestaurant", req, 500, <<>>)
                   /\ UNCHANGED <<restaurants, files>>
              ELSE IF file = "image" /\ EmptyBody(body)
              THEN /\ res' = Reply("postRestaurant", req, 200, [imageUrl |-> name])
                   /\ files' = saved
                   /\ UNCHANGED restaurants
              ELSE IF body.id = Undefined \/ body.name = Undefined
              THEN /\ res' = Reply("postRestaurant", req, 400, <<>>)
                   /\ files' = saved
                   /\ UNCHANGED restaurants
              ELSE /\ restaurants' =
                         IF existingIndex # 0
                         THEN [restaurants EXCEPT ![existingIndex] = restaurant]
                         ELSE Append(restaurants, restaurant)
                   /\ files' = IF file = "image" /\ existingCoverImage # NoFile
                               THEN Replaced(saved, existingCoverImage, fails)
                               ELSE saved
                   /\ res' = Reply("postRestaurant", req, 200, restaurant)
    /\ sent' = <<>>
    /\ failing' = {}
    /\ UNCHANGED <<now, menuVars, orderVars, messageVars, clients, imageRecords, couriers>>

\* GET /restaurants
ListRestaurants(type) ==
    /\ type \in {"all", Undefined}
    /\ res' = Reply("listRestaurants", [type |-> type], 200,
                    IF type = "all" THEN restaurants
                    ELSE SelectSeq(restaurants, LAMBDA r : r.isActive = TRUE))
    /\ sent' = <<>>
    /\ failing' = {}
    /\ UNCHANGED <<now, menuVars, orderVars, messageVars, clients,
                 restaurantVars, sweepVars>>

\* GET /restaurants/:restaurantId
GetRestaurant(id) ==
    /\ id \in RestaurantIds
    /\ res' = IF RestaurantIndex(restaurants, id) = 0
               THEN Reply("getRestaurant", [restaurantId |-> id], 404, <<>>)
               ELSE Reply("getRestaurant", [restaurantId |-> id], 200,
                          restaurants[RestaurantIndex(restaurants, id)])
    /\ sent' = <<>>
    /\ failing' = {}
    /\ UNCHANGED <<now, menuVars, orderVars, messageVars, clients,
                 restaurantVars, sweepVars>>

(* ------------------------------------------------------------------ *)
(* WebSocket clients and broadcasting                                  *)
(* ------------------------------------------------------------------ *)
\* wss.on('connection'): the library adds the socket to wss.clients
WsConnect(c) ==
    /\ c \in Conns
    /\ c \notin Range(clients)
    /\ clients' = Append(clients, c)
    /\ sent' = <<>>
    /\ failing' = {}
    /\ res' = Reply("wsConnect", [conn |-> c], 0, <<>>)
    /\ UNCHANGED <<now, menuVars, orderVars, messageVars,
                 restaurantVars, sweepVars>>

\* ws.on('close'): the library removes the socket from wss.clients
WsClose(c) ==
    /\ c \in Range(clients)
    /\ clients' = SelectSeq(clients, LAMBDA x : x # c)
    /\ sent' = <<>>
    /\ failing' = {}
    /\ res' = Reply("wsClose", [conn |-> c], 0, <<>>)
    /\ UNCHANGED <<now, menuVars, orderVars, messageVars,
                 restaurantVars, sweepVars>>

\* index of the first of the sockets cl that is in bad; Len(cl) + 1 if none is
FirstBad(cl, bad) ==
    IF \E i \in 1..Len(cl) : cl[i] \in bad
    THEN CHOOSE i \in 1..Len(cl) : cl[i] \in bad /\ \A j \in 1..(i - 1) : cl[j] \notin bad
    ELSE Len(cl) + 1

\* Broadcast stopping after the first socket
BroadcastFirstOnly(cl, bad, type, data) ==
    [sent |-> [i \in 1..(IF FirstBad(cl, bad) = 1 \/ Len(cl) = 0 THEN 0 ELSE 1) |->
                  [to |-> cl[i], type |-> type, data |-> data]],
     threw |-> FirstBad(cl, bad) <= Len(cl)]

\* cl.forEach(client => client.send(JSON.stringify({type, data}))) where send
\* throws for the sockets in bad: the sends made before the first throw, and
\* whether forEach threw.
Broadcast(cl, bad, type, data) ==
    [sent |-> [i \in 1..(FirstBad(cl, bad) - 1) |->
                  [to |-> cl[i], type |-> type, data |-> data]],
     threw |-> FirstBad(cl, bad) <= Len(cl)]

\* the data key of an event whose value is undefined (JSON.stringify drops it)
NoData == <<>>

Unparseable == [type |-> "unparseable", messageId |-> 0]
WsData == {[type |-> "chat", messageId |-> 0]} \cup
          {[type |-> "message_delivered", messageId |-> i] : i \in 1..MaxPosts}

\* ws.on('message'): relay to every client but the sender, inside try/catch
WsMessage(c, data, bad) ==
    /\ c \in Range(clients)
    /\ data \in WsData \cup {Unparseable}
    /\ bad \in SUBSET (Range(clients) \ {c})
    /\ sent' = IF data = Unparseable THEN <<>>
               ELSE Broadcast(SelectSeq(clients, LAMBDA x : x # c), bad, "message", data).sent
    /\ failing' = IF data = Unparseable THEN {} ELSE bad
    /\ res' = Reply("wsMessage", [conn |-> c, data |-> data], 0, <<>>)
    /\ UNCHANGED <<now, menuVars, orderVars, messageVars, clients,
                 restaurantVars, sweepVars>>

(* ------------------------------------------------------------------ *)
(* Orders                                                              *)
(* ------------------------------------------------------------------ *)
\* Map as its entries [key, list] in insertion order
MapIndex(m, k) == FirstOf({i \in 1..Len(m) : m[i].key = k})
\* MapGetOr that never finds the key
MapGetOrMissing(m, k, dflt) == dflt

\* orders.get(k) || []
MapGetOr(m, k, dflt) == IF MapIndex(m, k) = 0 THEN dflt ELSE m[MapIndex(m, k)].list
\* Map.set: an existing key keeps its place, a new key goes last
MapSet(m, k, v) ==
    IF MapIndex(m, k) = 0
    THEN Append(m, [key |-> k, list |-> v])
    ELSE [m EXCEPT ![MapIndex(m, k)] = [key |-> k, list |-> v]]
\* Array.from(orders.values()).flat()
AllOrders(m) == Flat([i \in 1..Len(m) |-> m[i].list])

Items5 == <<[price |-> 2, quantity |-> 2], [price |-> 1, quantity |-> 1]>>

RECURSIVE ItemsTotal(_)
\* sum of price x quantity over the order items
ItemsTotal(items) ==
    IF items = <<>> THEN 0
    ELSE Head(items).price * Head(items).quantity + ItemsTotal(Tail(items))

\* The orders a client posts; the body is stored as sent, createdAt included.
\* Order o1 declares the total of its items, order o2 declares one more.
OrderInputs(u) ==
    {[id |-> o, userId |-> u, restaurantId |-> "r1", status |-> "PENDING",
      totalAmount |-> IF o = "o1" THEN ItemsTotal(Items5) ELSE ItemsTotal(Items5) + 1,
      orderItems |-> Items5, courierId |-> Undefined, createdAt |-> 0] : o \in OrderIds}
OrderBodies(u) == {ArrayOf(s) : s \in SeqsUpTo(OrderInputs(u), MaxBatch)} \cup {NotArray}

\* POST /orders/:userId
CreateOrders(userId, newOrders, bad) ==
    /\ userId \in UserIds
    /\ bad \in SUBSET Range(clients)
    /\ Len(AllOrders(orders)) + Len(newOrders.elems) <= MaxOrders
    /\ newOrders \in OrderBodies(userId)
    /\ IF ~newOrders.isArray
       THEN /\ res' = Reply("createOrders", [userId |-> userId, orders |-> newOrders],
                            400, <<>>)
            /\ sent' = <<>>
            /\ failing' = {}
            /\ UNCHANGED orders
       ELSE LET b == Broadcast(clients, bad, "new_order",
                               IF Len(newOrders.elems) > 0 THEN newOrders.elems[1] ELSE NoData)
            IN  /\ orders' = MapSet(orders, userId,
                                    MapGetOr(orders, userId, <<>>) \o newOrders.elems)
                /\ sent' = b.sent
                /\ failing' = bad
                /\ res' = Reply("createOrders", [userId |-> userId, orders |-> newOrders],
                                IF b.threw THEN 500 ELSE 200, <<>>)
    /\ UNCHANGED <<now, menuVars, messageVars, clients,
                 restaurantVars, sweepVars>>

\* the statuses the sampled updateStatus requests carry
UpdateStatuses == {"READY", "DELIVERED", "CANCELLED"}

\* Updated with the fallback dropped: courierId taken from the request alone
UpdatedNoFallback(order, status, courierId) ==
    [order EXCEPT !.status = status, !.courierId = courierId]

\* {...order, status, courierId: courierId || order.courierId}
Updated(order, status, courierId) ==
    [order EXCEPT !.status = status,
                  !.courierId = IF courierId # Undefined THEN courierId ELSE @]

\* a bucket rewritten whole: every order of a bucket holding the id is updated
UpdateBucketWhole(list, orderId, status, courierId) ==
    IF IndexOfId(list, orderId) = 0 THEN list
    ELSE [j \in 1..Len(list) |-> Updated(list[j], status, courierId)]

\* the body of orders.forEach for one bucket
UpdateBucket(list, orderId, status, courierId) ==
    LET i == IndexOfId(list, orderId)
    IN  IF i = 0 THEN list
        ELSE [list EXCEPT ![i] = Updated(@, status, courierId)]

HasOrder(m, orderId) == \E i \in 1..Len(m) : IndexOfId(m[i].list, orderId) # 0

\* UpdatedOrder read from the registry as it was before the forEach
UpdatedOrderBefore(m, orderId) ==
    LET hit == {i \in 1..Len(orders) : IndexOfId(orders[i].list, orderId) # 0}
        last == CHOOSE i \in hit : \A j \in hit : j <= i
    IN  orders[last].list[IndexOfId(orders[last].list, orderId)]

\* updatedOrder after the forEach: the order written in the last bucket that holds the id
UpdatedOrder(m, orderId) ==
    LET hit == {i \in 1..Len(m) : IndexOfId(m[i].list, orderId) # 0}
        last == CHOOSE i \in hit : \A j \in hit : j <= i
    IN  m[last].list[IndexOfId(m[last].list, orderId)]

\* PUT /orders/:orderId/status
UpdateStatus(orderId, status, courierId, bad) ==
    /\ orderId \in OrderIds
    /\ status \in OrderStatus
    /\ courierId \in CourierIds \cup {Undefined}
    /\ bad \in SUBSET Range(clients)
    /\ LET req == [orderId |-> orderId, status |-> status, courierId |-> courierId]
           after == [i \in 1..Len(orders) |->
                       [key |-> orders[i].key,
                        list |-> UpdateBucket(orders[i].list, orderId, status, courierId)]]
       IN  IF ~HasOrder(orders, orderId)
           THEN /\ res' = Reply("updateStatus", req, 404, <<>>)
                /\ sent' = <<>>
                /\ failing' = {}
                /\ UNCHANGED orders
           ELSE LET b == Broadcast(clients, bad, "order_update",
                                   [orderId |-> orderId, status |-> status,
                                    updatedOrder |-> UpdatedOrder(after, orderId)])
                IN  /\ orders' = after
                    /\ sent' = b.sent
                    /\ failing' = bad
                    /\ res' = Reply("updateStatus", req, IF b.threw THEN 500 ELSE 200, <<>>)
    /\ UNCHANGED <<now, menuVars, messageVars, clients,
                 restaurantVars, sweepVars>>

\* the open-jobs listing with the 24 hour cut of the role listing
ListAvailableRecent ==
    /\ res' = Reply("listAvailable", <<>>, 200,
                    SelectSeq(AllOrders(orders),
                           LAMBDA o : /\ o.status = "READY" /\ o.courierId = Undefined
                                      /\ now - o.createdAt <= TWENTY_FOUR_HOURS))
    /\ sent' = <<>>
    /\ failing' = {}
    /\ UNCHANGED <<now, menuVars, orderVars, messageVars, clients,
                 restaurantVars, sweepVars>>

\* GET /orders/available
ListAvailable ==
    /\ res' = Reply("listAvailable", <<>>, 200,
                    SelectSeq(AllOrders(orders),
                           LAMBDA o : o.status = "READY" /\ o.courierId = Undefined))
    /\ sent' = <<>>
    /\ failing' = {}
    /\ UNCHANGED <<now, menuVars, orderVars, messageVars, clients,
                 restaurantVars, sweepVars>>

ListQueries ==
    {[userId |-> u, type |-> "customer"] : u \in UserIds} \cup
    {[userId |-> c, type |-> "courier"] : c \in CourierIds} \cup
    {[userId |-> "r1", type |-> Undefined]}

\* Recent with < for <=
RecentStrict(order, t) == t - order.createdAt < TWENTY_FOUR_HOURS

\* Date.now() - order.createdAt <= TWENTY_FOUR_HOURS
Recent(order, t) == t - order.createdAt <= TWENTY_FOUR_HOURS

\* GET /orders/:userId
ListOrders(q) ==
    /\ q \in ListQueries
    /\ LET all == AllOrders(orders)
           mine == IF q.type = "customer" THEN SelectSeq(all, LAMBDA o : o.userId = q.userId)
                   ELSE IF q.type = "courier" THEN SelectSeq(all, LAMBDA o : o.courierId = q.userId)
                   ELSE SelectSeq(all, LAMBDA o : o.restaurantId = q.userId)
       IN  res' = Reply("listOrders", q, 200, SelectSeq(mine, LAMBDA o : Recent(o, now)))
    /\ sent' = <<>>
    /\ failing' = {}
    /\ UNCHANGED <<now, menuVars, orderVars, messageVars, clients,
                 restaurantVars, sweepVars>>

(* ------------------------------------------------------------------ *)
(* Messages                                                            *)
(* ------------------------------------------------------------------ *)
\* a reference for a new array: the least one not in use
NewRef(h) == CHOOSE r \in 1..(Cardinality(DOMAIN h) + 1) :
                 r \notin DOMAIN h /\ \A q \in 1..(r - 1) : q \in DOMAIN h

\* the arrays still referenced by the map or by a listener's closure
Collect(h, msgs, ls) ==
    [r \in {msgs[k] : k \in DOMAIN msgs} \cup {ls[i].arr : i \in 1..Len(ls)} |-> h[r]]

\* messages.get(orderId) || [] as a value
Thread(msgs, h, orderId) == IF orderId \in DOMAIN msgs THEN h[msgs[orderId]] ELSE <<>>

MessageBodies ==
    [content : {"hi", Undefined}, senderId : {"u1", Undefined},
     isFromUser : {TRUE}, chatType : ChatTypes \cup {Undefined}]

\* the validation without its chatType test
MissingContentOrSender(body) ==
    body.content = Undefined \/ body.senderId = Undefined

\* !content || !senderId || !chatType
MissingFields(body) ==
    body.content = Undefined \/ body.senderId = Undefined \/ body.chatType = Undefined

\* the Message built by POST /messages; the random id is the next unused number
NewMessage(orderId, body, id, t) ==
    [id |-> id, orderId |-> orderId, content |-> body.content,
     senderId |-> body.senderId, isFromUser |-> body.isFromUser,
     chatType |-> body.chatType, timestamp |-> t, delivered |-> FALSE]

\* POST /messages/:orderId
PostMessage(orderId, body, bad) ==
    /\ orderId \in OrderIds
    /\ body \in MessageBodies
    /\ bad \in SUBSET Range(clients)
    /\ LET req == [orderId |-> orderId, body |-> body]
       IN  IF MissingFields(body)
           THEN /\ res' = Reply("postMessage", req, 400, <<>>)
                /\ sent' = <<>>
                /\ failing' = {}
                /\ UNCHANGED messageVars
           ELSE /\ Len(posted) < MaxPosts
                /\ LET message == NewMessage(orderId, body, Len(posted) + 1, now)
                       ref == IF orderId \in DOMAIN messages THEN messages[orderId]
                              ELSE NewRef(heap)
                       b == Broadcast(clients, bad, "new_message", message)
                       ls == IF b.threw THEN listeners
                             ELSE Append(listeners,
                                         [orderId |-> orderId, messageId |-> message.id,
                                          arr |-> ref])
                       h == Put(heap, ref, Append(Thread(messages, heap, orderId), message))
                       ms == Put(messages, orderId, ref)
                   IN  /\ messages' = ms
                       /\ listeners' = ls
                       /\ heap' = Collect(h, ms, ls)
                       /\ posted' = Append(posted, message)
                       /\ UNCHANGED acked
                       /\ sent' = b.sent
                       /\ failing' = bad
                       /\ res' = Reply("postMessage", req, IF b.threw THEN 500 ELSE 200,
                                       IF b.threw THEN <<>> ELSE message)
    /\ UNCHANGED <<now, menuVars, orderVars, clients,
                 restaurantVars, sweepVars>>

Fresh(msg, t) == t - msg.timestamp <= THREE_HOURS

\* GET /messages/:orderId
ListMessages(orderId, type) ==
    /\ orderId \in OrderIds
    /\ type \in ChatTypes \cup {Undefined}
    /\ LET orderMessages == Thread(messages, heap, orderId)
           filteredMessages == IF type # Undefined
                               THEN SelectSeq(orderMessages, LAMBDA m : m.chatType = type)
                               ELSE orderMessages
           recentMessages == SelectSeq(filteredMessages, LAMBDA m : Fresh(m, now))
           ref == NewRef(heap)
           ms == Put(messages, orderId, ref)
       IN  /\ IF Len(recentMessages) # Len(orderMessages)
              THEN /\ messages' = ms
                   /\ heap' = Collect(Put(heap, ref, recentMessages), ms, listeners)
              ELSE UNCHANGED <<messages, heap>>
           /\ res' = Reply("listMessages", [orderId |-> orderId, type |-> type], 200,
                           recentMessages)
    /\ sent' = <<>>
    /\ failing' = {}
    /\ UNCHANGED <<now, menuVars, orderVars, listeners, posted, acked, clients,
                 restaurantVars, sweepVars>>

\* the 'message' listener POST /messages registered for one message, run on data
RunListener(l, data, st) ==
    IF data.type = "message_delivered" /\ data.messageId = l.messageId
    THEN LET updatedMessages == SelectSeq(st.heap[l.arr], LAMBDA m : m.id # l.messageId)
             ref == NewRef(st.heap)
         IN  [messages |-> Put(st.messages, l.orderId, ref),
              heap |-> Put(st.heap, ref, updatedMessages)]
    ELSE st

RECURSIVE RunListeners(_, _, _)
RunListeners(ls, data, st) ==
    IF ls = <<>> THEN st
    ELSE RunListeners(Tail(ls), data, RunListener(Head(ls), data, st))

\* a 'message' event emitted on wss: every listener registered by
\* POST /messages runs, in registration order
WssMessage(data) ==
    /\ data \in WsData
    /\ LET st == RunListeners(listeners, data, [messages |-> messages, heap |-> heap])
       IN  /\ messages' = st.messages
           /\ heap' = Collect(st.heap, st.messages, listeners)
    /\ acked' = acked \cup {listeners[i].messageId : i \in
                     {j \in 1..Len(listeners) : data.type = "message_delivered"
                                                 /\ data.messageId = listeners[j].messageId}}
    /\ sent' = <<>>
    /\ failing' = {}
    /\ res' = Reply("wssMessage", [data |-> data], 0, <<>>)
    /\ UNCHANGED <<now, menuVars, orderVars, listeners, posted, clients,
                 restaurantVars, sweepVars>>

(* ------------------------------------------------------------------ *)
(* Cleanup, every 15 minutes                                           *)
(* ------------------------------------------------------------------ *)
\* menus older than 24 hours are deleted
SweepMenus(menus, t) ==
    [r \in {x \in DOMAIN menus : ~MenuExpired(menus[x], t)} |-> menus[r]]

RECURSIVE SweepThreads(_, _, _)
\* per thread: keep the messages at most 3 hours old, delete an empty thread
SweepThreads(keys, st, t) ==
    IF keys = {} THEN st
    ELSE LET k == CHOOSE x \in keys : TRUE
             filteredMessages == SelectSeq(st.heap[st.messages[k]], LAMBDA m : Fresh(m, t))
             ref == NewRef(st.heap)
         IN  SweepThreads(keys \ {k},
                 IF Len(filteredMessages) = 0
                 THEN [messages |-> Drop(st.messages, k), heap |-> st.heap]
                 ELSE [messages |-> Put(st.messages, k, ref),
                       heap |-> Put(st.heap, ref, filteredMessages)],
                 t)

\* Active by age alone
ActiveByAge(order, t) == t - order.createdAt <= TWENTY_FOUR_HOURS

\* order.status !== 'DELIVERED' && order.status !== 'CANCELLED' || now - order.createdAt <= 24h
Active(order, t) ==
    (order.status # "DELIVERED" /\ order.status # "CANCELLED")
    \/ t - order.createdAt <= TWENTY_FOUR_HOURS

\* SweepOrders not run
SweepOrdersSkipped(m, t) == m

\* per bucket: keep the active orders, delete an empty bucket
SweepOrders(m, t) ==
    SelectSeq([i \in 1..Len(m) |->
               [key |-> m[i].key, list |-> SelectSeq(m[i].list, LAMBDA o : Active(o, t))]],
           LAMBDA e : Len(e.list) # 0)

\* oldImages: the records older than 3 hours
OldImages(records, t) == SelectSeq(records, LAMBDA r : t - r.timestamp > THREE_HOURS)

\* the image loop: every old image that exists is unlinked, unless its
\* unlink throws (stuck); the throw is caught inside the loop
SweepImages(fs, records, stuck, t) ==
    fs \ ({r.filename : r \in Range(OldImages(records, t))} \ stuck)

\* couriers inactive for more than 24 hours are deleted
SweepCouriers(cs, t) ==
    [c \in {x \in DOMAIN cs : ~(t - cs[x].lastActive > TWENTY_FOUR_HOURS)} |-> cs[c]]

\* the messages held by all threads
StoredMessages(msgs, h) ==
    UNION {{<<k, i>> : i \in 1..Len(h[msgs[k]])} : k \in DOMAIN msgs}

\* one 'Cleaned up N expired ...' line of the log
Logged(sweep, count) == [sweep |-> sweep, count |-> count]

\* setInterval(() => {...}, FIFTEEN_MINUTES): the five sweeps in turn, each
\* followed by its log line
Cleanup ==
    /\ \E stuck \in SUBSET ({r.filename : r \in Range(OldImages(imageRecords, now))}
                             \cap files) :
       LET st == SweepThreads(DOMAIN messages, [messages |-> messages, heap |-> heap], now)
       IN  /\ tempMenus' = SweepMenus(tempMenus, now)
           /\ messages' = st.messages
           /\ heap' = Collect(st.heap, st.messages, listeners)
           /\ orders' = SweepOrders(orders, now)
           /\ files' = SweepImages(files, imageRecords, stuck, now)
           /\ imageRecords' = SelectSeq(imageRecords,
                                  LAMBDA r : now - r.timestamp <= THREE_HOURS)
           /\ couriers' = SweepCouriers(couriers, now)
           /\ res' = Reply("cleanup", <<>>, 0,
                  <<Logged("menus", Cardinality(DOMAIN tempMenus)
                                    - Cardinality(DOMAIN SweepMenus(tempMenus, now))),
                    Logged("messages", Cardinality(StoredMessages(messages, heap))
                                       - Cardinality(StoredMessages(st.messages, st.heap))),
                    Logged("orders", Len(AllOrders(orders))
                                     - Len(AllOrders(SweepOrders(orders, now)))),
                    Logged("images", Cardinality(files)
                                     - Cardinality(SweepImages(files, imageRecords,
                                                               stuck, now))),
                    Logged("couriers", Cardinality(DOMAIN couriers)
                                       - Cardinality(DOMAIN SweepCouriers(couriers, now)))>>)
    /\ sent' = <<>>
    /\ failing' = {}
    /\ UNCHANGED <<now, listeners, posted, acked, clients, restaurants, uploaded>>

(* ------------------------------------------------------------------ *)
(* Specifications                                                      *)
(* ------------------------------------------------------------------ *)
NoBad == {{}}              \* every send succeeds
AnyBad == SUBSET Conns     \* send throws for any of the sockets

Connections ==
    \/ \E c \in Conns : WsConnect(c)
    \/ \E c \in Conns : WsClose(c)
MenuOps ==
    \/ \E r \in RestaurantIds, items \in MenuBodies : SetMenu(r, items)
    \/ \E r \in RestaurantIds : GetMenu(r)
OrderWrites(bads, cids, statuses) ==
    \/ \E u \in UserIds, bad \in bads :
          \E body \in OrderBodies(u) : CreateOrders(u, body, bad)
    \/ \E o \in OrderIds, s \in statuses, c \in cids \cup {Undefined},
          bad \in bads : UpdateStatus(o, s, c, bad)
OrderReads ==
    \/ ListAvailable
    \/ \E q \in ListQueries : ListOrders(q)

\* the complete bodies and the empty one
PlainBodies ==
    {b \in MessageBodies :
        ~MissingFields(b) \/ (b.content = Undefined /\ b.senderId = Undefined
                               /\ b.chatType = Undefined)}

MessageOps(bads, bodies) ==
    \/ \E o \in OrderIds, body \in bodies, bad \in bads :
          PostMessage(o, body, bad)
    \/ \E o \in OrderIds, type \in ChatTypes \cup {Undefined} : ListMessages(o, type)
    \/ \E data \in WsData : WssMessage(data)
Relay ==
    \E c \in Conns, data \in WsData \cup {Unparseable}, bad \in AnyBad :
        WsMessage(c, data, bad)

RestaurantOps ==
    \/ \E file \in {"none", "image", "other"}, body \in RestaurantBodies, fails \in BOOLEAN :
          PostRestaurant(file, body, fails)
    \/ \E type \in {"all", Undefined} : ListRestaurants(type)
    \/ \E id \in RestaurantIds : GetRestaurant(id)

\* the restaurants and their uploaded images, the clock around the 3h limit
\* and the cleanup
NextImages ==
    \/ \E t \in {THREE_HOURS, THREE_HOURS + MINUTE} : Advance(t)
    \/ RestaurantOps
    \/ Cleanup
SpecImages == Init /\ [][NextImages]_vars

\* one menu, one order, one message and the uploads, the clock past the 3h
\* and the 24h limits and the cleanup: what a tick finds in all the stores
NextSweep ==
    \/ \E t \in {THREE_HOURS + MINUTE, TWENTY_FOUR_HOURS + MINUTE} : Advance(t)
    \/ SetMenu("r1", ArrayOf(<<[id |-> "m1", price |-> 999, updatedAt |-> 7]>>))
    \/ \E o \in OrderInputs("u1") : CreateOrders("u1", ArrayOf(<<o>>), {})
    \/ UpdateStatus("o1", "DELIVERED", Undefined, {})
    \/ PostMessage("o1", [content |-> "hi", senderId |-> "u1", isFromUser |-> TRUE,
                          chatType |-> "RESTAURANT_CHAT"], {})
    \/ \E fails \in BOOLEAN :
          PostRestaurant("image", [id |-> "r1", name |-> "n1", isActive |-> "true"], fails)
    \/ Cleanup
SpecSweep == Init /\ [][NextSweep]_vars

\* the menu store, the clock around the 24h limit and the cleanup
NextMenus ==
    \/ \E t \in {TWENTY_FOUR_HOURS, TWENTY_FOUR_HOURS + MINUTE} : Advance(t)
    \/ MenuOps
    \/ Cleanup
SpecMenus == Init /\ [][NextMenus]_vars

\* the order registry with no socket connected, the clock around the 24h
\* limit and the cleanup
NextOrders ==
    \/ \E t \in {TWENTY_FOUR_HOURS, TWENTY_FOUR_HOURS + MINUTE} : Advance(t)
    \/ OrderWrites(NoBad, CourierIds, UpdateStatuses)
    \/ OrderReads
    \/ Cleanup
SpecOrders == Init /\ [][NextOrders]_vars

\* the writes of the order registry and the sockets, the clock standing still
NextOrdersWs == OrderWrites(AnyBad, {"c1"}, UpdateStatuses) \/ Connections
SpecOrdersWs == Init /\ [][NextOrdersWs]_vars

\* the message threads with no socket connected, the clock around the 3h
\* limit and the cleanup
NextMessages ==
    \/ \E t \in {THREE_HOURS, THREE_HOURS + MINUTE} : Advance(t)
    \/ MessageOps(NoBad, PlainBodies)
    \/ Cleanup
SpecMessages == Init /\ [][NextMessages]_vars

\* the reads of the order registry between creates and updates to
\* PREPARING and DELIVERED, the clock around the 24h limit and the cleanup
NextOrderReads ==
    \/ \E t \in {TWENTY_FOUR_HOURS, TWENTY_FOUR_HOURS + MINUTE} : Advance(t)
    \/ OrderWrites(NoBad, {"c1"}, {"PREPARING", "DELIVERED"})
    \/ OrderReads
    \/ Cleanup
SpecOrderReads == Init /\ [][NextOrderReads]_vars

\* the message threads and the sockets, the clock standing still
NextMessagesWs == MessageOps(AnyBad, MessageBodies) \/ Relay \/ Connections
SpecMessagesWs == Init /\ [][NextMessagesWs]_vars

\* the whole server
Next ==
    \/ \E t \in Times : Advance(t)
    \/ MenuOps
    \/ OrderWrites(AnyBad, CourierIds, OrderStatus)
    \/ OrderReads
    \/ MessageOps(AnyBad, MessageBodies)
    \/ RestaurantOps
    \/ Relay
    \/ Cleanup
    \/ Connections
Spec == Init /\ [][Next]_vars

(* ------------------------------------------------------------------ *)
(* Properties                                                          *)
(* ------------------------------------------------------------------ *)
\* the orders of the registry as (bucket, position) pairs
Slots(m) == {<<i, j>> : i \in 1..Len(m), j \in 1..MaxOrders + 1} \cap
            UNION {{<<i, j>> : j \in 1..Len(m[i].list)} : i \in 1..Len(m)}
At(m, p) == m[p[1]].list[p[2]]

\* C1: once an order's status is DELIVERED or CANCELLED, an updateStatus
\* call leaves that status as it is (the call is rejected or is a no-op).
C1_TerminalStatusIsFinal ==
    [][res'.op = "updateStatus" =>
          \A p \in Slots(orders) :
              At(orders, p).status \in Terminal =>
                  At(orders', p).status = At(orders, p).status]_vars

\* C2: an updateStatus call that omits the courier id leaves the courierId
\* of every order that has one as it was, whatever status the call carries.
C2_CourierRetained ==
    [][(res'.op = "updateStatus" /\ res'.req.courierId = Undefined) =>
          \A p \in Slots(orders) :
              At(orders, p).courierId # Undefined =>
                  At(orders', p).courierId = At(orders, p).courierId]_vars

\* C2 witness: an updateStatus without courier id has just succeeded on an
\* order that carries a courier and that the call moved to another status.
C2_Witness ==
    /\ res.op = "updateStatus"
    /\ res.status = 200
    /\ res.req.courierId = Undefined
    /\ \E p \in Slots(orders) :
          /\ At(orders, p).id = res.req.orderId
          /\ At(orders, p).courierId = "c2"
          /\ At(orders, p).status = "DELIVERED"

\* the posted messages list(orderId, type) is to return at time t
Expected(orderId, type, t) ==
    SelectSeq(posted, LAMBDA m : /\ m.orderId = orderId
                              /\ (type = Undefined \/ m.chatType = type)
                              /\ Fresh(m, t)
                              /\ m.id \notin acked)

\* C3: list(orderId, chatType) returns exactly the order's unexpired,
\* unacknowledged messages of the requested channel, whatever list calls
\* were made before.
C3_ListReturnsChannel ==
    res.op = "listMessages" =>
        res.body = Expected(res.req.orderId, res.req.type, now)

\* C4: a stored message stays in its thread, unchanged, unless it is older
\* than 3 hours and a list or the sweep evicts it, or a delivery
\* acknowledgement for it removes it.
C4_MessagesAppendOnly ==
    [][\A o \in DOMAIN messages :
          \A m \in Range(Thread(messages, heap, o)) :
              \/ m \in Range(Thread(messages', heap', o))
              \/ /\ res'.op \in {"listMessages", "cleanup"}
                 /\ ~Fresh(m, now')
              \/ /\ res'.op = "wssMessage"
                 /\ res'.req.data.type = "message_delivered"
                 /\ res'.req.data.messageId = m.id]_vars

\* C5: an unacknowledged message posted at T is returned by a list of its
\* order (no filter, or its channel) at time t exactly when t - T <= 3h;
\* after a sweep at time t it is stored exactly when t - T <= 3h, and no
\* empty thread is left.
C5_ExpiryAtThreeHours ==
    /\ res.op = "listMessages" =>
          \A i \in 1..Len(posted) :
              (/\ posted[i].orderId = res.req.orderId
               /\ posted[i].id \notin acked
               /\ res.req.type \in {Undefined, posted[i].chatType})
              => (posted[i] \in Range(res.body) <=> now - posted[i].timestamp <= THREE_HOURS)
    /\ res.op = "cleanup" =>
          /\ \A i \in 1..Len(posted) :
                posted[i].id \notin acked =>
                    (posted[i] \in Range(Thread(messages, heap, posted[i].orderId))
                        <=> now - posted[i].timestamp <= THREE_HOURS)
          /\ \A o \in DOMAIN messages : Thread(messages, heap, o) # <<>>

\* C6 as stated: getMenu(R) right after a successful setMenu(R, items)
\* returns exactly items.
C6_RoundTripExact ==
    [][(/\ res.op = "setMenu" /\ res.status = 200
        /\ res'.op = "getMenu"
        /\ res'.req.restaurantId = res.req.restaurantId)
       => (res'.status = 200 /\ res'.body = res.req.items.elems)]_vars

\* C6 as amended: getMenu(R) right after a successful setMenu(R, items)
\* returns as many items, in the same order, each with the fields sent
\* except updatedAt, which holds the time of the setMenu.
C6_RoundTripStamped ==
    [][(/\ res.op = "setMenu" /\ res.status = 200
        /\ res'.op = "getMenu"
        /\ res'.req.restaurantId = res.req.restaurantId)
       => LET items == res.req.items.elems
              got == res'.body
          IN  /\ res'.status = 200
              /\ Len(got) = Len(items)
              /\ \A i \in 1..Len(items) :
                    /\ DOMAIN got[i] = DOMAIN items[i]
                    /\ \A f \in DOMAIN items[i] \ {"updatedAt"} : got[i][f] = items[i][f]
                    /\ got[i].updatedAt = now]_vars

\* C6 witness: a menu of two different items read back at the instant it
\* was set.
C6_Witness ==
    /\ res.op = "getMenu"
    /\ res.status = 200
    /\ Len(res.body) = 2
    /\ res.body[1].id # res.body[2].id
    /\ tempMenus[res.req.restaurantId].timestamp = now

C8_TotalsMatchItems ==
    \A p \in Slots(orders) :
        At(orders, p).totalAmount = ItemsTotal(At(orders, p).orderItems)

\* C9: updateStatus succeeds exactly when some bucket holds the order id and
\* answers NotFound exactly when none does; on NotFound the registry is
\* unchanged and nothing is broadcast.
C9_FoundIffSucceeds ==
    [][res'.op = "updateStatus" =>
          /\ res'.status = 200 <=> HasOrder(orders, res'.req.orderId)
          /\ res'.status = 404 <=> ~HasOrder(orders, res'.req.orderId)
          /\ res'.status = 404 => (orders' = orders /\ sent' = <<>>)]_vars

\* C10: createOrders, updateStatus and append never answer with an error
\* because a send failed: their answer is the success result, or the
\* validation or not-found result of the request itself.
C10_SendFailureNotSurfaced ==
    res.op \in {"createOrders", "updateStatus", "postMessage"} =>
        res.status \in {200, 400, 404}

\* the sockets a handler's broadcast addresses: every registered socket, and
\* for a relayed client message every one but the sender
Targets(r, cl) ==
    IF r.op = "wsMessage" THEN Range(cl) \ {r.req.conn} ELSE Range(cl)

\* the sockets the last handler's events went to
Reached(evs) == {evs[i].to : i \in 1..Len(evs)}

\* C11: when the send to exactly one addressed connection fails during a
\* broadcast (a server event or a relayed client message), every other
\* addressed connection still gets the event, and the failing connection
\* is no longer registered afterwards.
C11_FailureIsolated ==
    [][(/\ res'.op \in {"createOrders", "updateStatus", "postMessage", "wsMessage"}
        /\ Cardinality(failing') = 1
        /\ failing' \subseteq Targets(res', clients))
       => /\ Targets(res', clients) \ failing' \subseteq Reached(sent')
          /\ failing' \cap Range(clients') = {}]_vars

\* C12: a post that succeeds puts exactly one new_message event on every
\* connection registered at that moment, in registration order and on no
\* other connection; the event carries the message as stored at the end of
\* the order's thread, whatever order it is.
C12_NewMessageToEveryone ==
    [][(res'.op = "postMessage" /\ res'.status = 200) =>
          LET thread == Thread(messages', heap', res'.req.orderId)
          IN  /\ Len(thread) > 0
              /\ res'.body = thread[Len(thread)]
              /\ res'.body.orderId = res'.req.orderId
              /\ clients' = clients
              /\ sent' = [i \in 1..Len(clients) |->
                            [to |-> clients[i], type |-> "new_message",
                             data |-> thread[Len(thread)]]]]_vars

\* C12 witness: a message posted to order o2 has just reached both of the
\* two registered connections, once each.
C12_Witness ==
    /\ res.op = "postMessage"
    /\ res.status = 200
    /\ res.req.orderId = "o2"
    /\ Len(clients) = 2
    /\ Len(sent) = 2
    /\ {sent[1].to, sent[2].to} = Range(clients)
    /\ sent[1].data = res.body

\* C13: an updateStatus that succeeds sends exactly one order_update event
\* to every registered connection; its payload holds the order id and the
\* status of the request and a snapshot equal to an order with that id as
\* the registry stores it after the update (the new status, and the courier
\* of the request or, without one, the courier the order had).  No
\* order_update event, of a failed call either, carries a snapshot the
\* registry does not hold after the step.
C13_OrderUpdateAfterMutation ==
    [][res'.op = "updateStatus" =>
          /\ res'.status = 200 =>
                /\ Len(sent') = Len(clients)
                /\ \A i \in 1..Len(clients) :
                      /\ sent'[i].to = clients[i]
                      /\ sent'[i].type = "order_update"
          /\ \A i \in 1..Len(sent') :
                /\ sent'[i].data.orderId = res'.req.orderId
                /\ sent'[i].data.status = res'.req.status
                /\ sent'[i].data.updatedOrder.id = res'.req.orderId
                /\ sent'[i].data.updatedOrder.status = res'.req.status
                /\ \E p \in Slots(orders') :
                      /\ At(orders', p) = sent'[i].data.updatedOrder
                      /\ At(orders, p).id = res'.req.orderId
                      /\ At(orders', p).courierId =
                            IF res'.req.courierId # Undefined THEN res'.req.courierId
                            ELSE At(orders, p).courierId]_vars

\* C13 witness: an update that changed the status and set the courier of an
\* order has just been announced to two connections.
C13_Witness ==
    /\ res.op = "updateStatus"
    /\ res.status = 200
    /\ res.req.courierId = "c1"
    /\ Len(sent) = 2
    /\ sent[2].data.updatedOrder.status = "DELIVERED"
    /\ sent[2].data.updatedOrder.courierId = "c1"

\* the orders listOrders is to return for a query at time t: the stored
\* orders of the role, at most 24h old, in registry order
Listed(q, t) ==
    SelectSeq(AllOrders(orders),
        LAMBDA o : /\ IF q.type = "customer" THEN o.userId = q.userId
                      ELSE IF q.type = "courier" THEN o.courierId = q.userId
                      ELSE o.restaurantId = q.userId
                   /\ t - o.createdAt <= TWENTY_FOUR_HOURS)

\* C14: listOrders changes no store and returns exactly the stored orders
\* that match the role and are at most 24h old, as stored; listed right
\* after a successful updateStatus, at most 24h after the order was
\* created, the order's restaurant sees the order with the new status.
C14_ListOrdersExact ==
    [][res'.op = "listOrders" =>
          /\ UNCHANGED <<menuVars, orderVars, messageVars, restaurantVars, sweepVars>>
          /\ res'.status = 200
          /\ res'.body = Listed(res'.req, now)
          /\ (/\ res.op = "updateStatus" /\ res.status = 200
              /\ res'.req.type = Undefined
              /\ now <= TWENTY_FOUR_HOURS)
             => \E i \in 1..Len(res'.body) :
                    /\ res'.body[i].id = res.req.orderId
                    /\ res'.body[i].restaurantId = res'.req.userId
                    /\ res'.body[i].status = res.req.status]_vars

\* C14 witness: the restaurant lists its orders at exactly 24h and sees the
\* order that was moved to PREPARING.
C14_Witness ==
    /\ res.op = "listOrders"
    /\ res.status = 200
    /\ res.req.type = Undefined
    /\ now = TWENTY_FOUR_HOURS
    /\ \E i \in 1..Len(res.body) : res.body[i].status = "PREPARING"

\* C15: when a connected client sends message_delivered{messageId} for a
\* message that a thread holds, the message is gone from its thread
\* afterwards and every other stored message is still where it was.
C15_AckRemovesMessage ==
    [][(/\ res'.op = "wsMessage"
        /\ res'.req.data.type = "message_delivered")
       => \A o \in DOMAIN messages :
              \A m \in Range(Thread(messages, heap, o)) :
                  IF m.id = res'.req.data.messageId
                  THEN m \notin Range(Thread(messages', heap', o))
                  ELSE m \in Range(Thread(messages', heap', o))]_vars

\* C16: after a cleanup tick no uploaded image file older than 3 hours is
\* left in the uploads directory.
C16_OldImagesSwept ==
    res.op = "cleanup" => \A f \in files : now - uploaded[f] <= THREE_HOURS

\* the keys of the registry and the bucket of one owner
Keys(m) == {m[i].key : i \in 1..Len(m)}
Bucket(m, k) == IF k \in Keys(m) THEN m[CHOOSE i \in 1..Len(m) : m[i].key = k].list ELSE <<>>

C18_NewOrderOnlyWhenCreated ==
    [][(res'.op = "createOrders" /\ res'.status = 200) =>
          LET batch == res'.req.orders.elems
          IN  IF Len(batch) = 0
              THEN sent' = <<>>
              ELSE sent' = [i \in 1..Len(clients) |->
                              [to |-> clients[i], type |-> "new_order",
                               data |-> batch[1]]]]_vars

\* the keys of the registry in map order
KeySeq(m) == [i \in 1..Len(m) |-> m[i].key]

\* C19: a sweep keeps, in every bucket, exactly the orders whose status is
\* not DELIVERED or CANCELLED or whose age is at most 24h, unchanged and in
\* their order; it deletes every bucket left empty and keeps the others in
\* map order, so no empty bucket is left.
C19_SweepOrdersExact ==
    [][res'.op = "cleanup" =>
          /\ \A k \in Keys(orders) :
                Bucket(orders', k) =
                    SelectSeq(Bucket(orders, k),
                        LAMBDA o : o.status \notin Terminal
                                   \/ now - o.createdAt <= TWENTY_FOUR_HOURS)
          /\ \A i \in 1..Len(orders') : orders'[i].list # <<>>
          /\ KeySeq(orders') = SelectSeq(KeySeq(orders), LAMBDA k : k \in Keys(orders'))]_vars

\* C19 witness: a sweep past 24h has just removed one order and kept an
\* order of the same age that is not terminal.
C19_Witness ==
    /\ res.op = "cleanup"
    /\ now > TWENTY_FOUR_HOURS
    /\ res.body[3] = Logged("orders", 1)
    /\ Len(AllOrders(orders)) = 1
    /\ AllOrders(orders)[1].status = "READY"
    /\ now - AllOrders(orders)[1].createdAt > TWENTY_FOUR_HOURS

C22_PostValidatesThenAppends ==
    [][res'.op = "postMessage" =>
          LET o == res'.req.orderId
              body == res'.req.body
              before == Thread(messages, heap, o)
              after == Thread(messages', heap', o)
          IN  IF body.content = Undefined \/ body.senderId = Undefined
                 \/ body.chatType = Undefined
              THEN /\ res'.status = 400
                   /\ UNCHANGED messageVars
                   /\ sent' = <<>>
              ELSE /\ res'.status # 400
                   /\ Len(after) = Len(before) + 1
                   /\ SubSeq(after, 1, Len(before)) = before
                   /\ after[Len(after)].delivered = FALSE
                   /\ after[Len(after)].orderId = o
                   /\ after[Len(after)].content = body.content
                   /\ after[Len(after)].senderId = body.senderId
                   /\ after[Len(after)].chatType = body.chatType
                   /\ \A k \in OrderIds \ {o} :
                          Thread(messages', heap', k) = Thread(messages, heap, k)]_vars

\* a post has been appended behind an earlier message of the same order
C22_Witness ==
    /\ res.op = "postMessage"
    /\ res.status = 200
    /\ Len(Thread(messages, heap, res.req.orderId)) = 2
    /\ Thread(messages, heap, res.req.orderId)[2] = res.body

\* C23: delivery acknowledgements are handled by one persistent
\* subscription: at most one delivery listener is ever registered on the
\* socket server, however many messages have been posted.
C23_SingleAckListener == Len(listeners) <= 1

\* C24: updateStatus assigns a courier only to an order that has none: an
\* order already assigned to a courier keeps that courier whatever courier
\* id a later updateStatus carries, so the first of two couriers claiming
\* an order keeps it.
C24_FirstCourierKeepsOrder ==
    [][res'.op = "updateStatus" =>
          \A p \in Slots(orders) :
              At(orders, p).courierId # Undefined =>
                  At(orders', p).courierId = At(orders, p).courierId]_vars

\* the orders of a list that are neither DELIVERED nor CANCELLED
Open(list) == SelectSeq(list, LAMBDA o : o.status \notin Terminal)

Old(o, t) == t - o.createdAt > TWENTY_FOUR_HOURS

\* C25: no sweep removes an order that is neither DELIVERED nor CANCELLED,
\* whatever its age. An order older than 24 hours therefore stays stored,
\* updateStatus still finds and updates it, and listAvailable still returns
\* it while it is READY and unassigned, but listOrders returns it for no
\* role.
C25_OldOpenOrdersStay ==
    [][/\ res'.op = "cleanup" =>
            /\ \A k \in Keys(orders) : Open(Bucket(orders', k)) = Open(Bucket(orders, k))
            /\ \A p \in Slots(orders') : At(orders', p).status \in Terminal
                                            => ~Old(At(orders', p), now)
       /\ res'.op = "updateStatus" =>
            \A p \in Slots(orders) :
                (/\ At(orders, p).id = res'.req.orderId
                 /\ Old(At(orders, p), now)
                 /\ \A j \in 1..(p[2] - 1) :
                        orders[p[1]].list[j].id # res'.req.orderId)
                => /\ res'.status = 200
                   /\ At(orders', p).status = res'.req.status
       /\ res'.op = "listAvailable" =>
            \A p \in Slots(orders) :
                (/\ At(orders, p).status = "READY"
                 /\ At(orders, p).courierId = Undefined
                 /\ Old(At(orders, p), now))
                => \E i \in 1..Len(res'.body) : res'.body[i] = At(orders, p)
       /\ res'.op = "listOrders" =>
            \A i \in 1..Len(res'.body) : ~Old(res'.body[i], now)]_vars

\* listAvailable has handed out a stored order older than 24 hours
C25_Witness ==
    /\ res.op = "listAvailable"
    /\ now > TWENTY_FOUR_HOURS
    /\ \E i \in 1..Len(res.body) :
          /\ Old(res.body[i], now)
          /\ \E p \in Slots(orders) : At(orders, p) = res.body[i]

====
